---- MODULE Spec2Model ----
(***************************************************************************)
(* A model of the JSON-RPC 2.0 duplex client of butler-node (client.ts):   *)
(* the Client class, its connection handling, its handler registries, its  *)
(* table of pending calls and the dispatcher onReceiveRaw.                  *)
(***************************************************************************)
EXTENDS Integers, Sequences, FiniteSets, TLC

(* ------------------------------ bounds -------------------------------- *)

\* the id counter is capped: no id above MaxId is generated
MaxId == 2
\* transports of one Client that may be alive at the same time
MaxSockets == 2
\* inbound requests whose handler completion is still pending
MaxTasks == 2

(* --------------------------- program constants ------------------------ *)

ParseError == -32700
InvalidRequest == -32600
MethodNotFound == -32601
InternalError == -32603
\* idSeed = 1
IdSeedInit == 1

(* ------------------------------ JS values ----------------------------- *)

\* A JSON/JS value: a type tag and a number. Absent is a property that is
\* not in the object (or not on the wire); reading it yields Undefined.
Absent == [t |-> "absent", v |-> 0]
Undefined == [t |-> "undefined", v |-> 0]
Null == [t |-> "null", v |-> 0]
Num(n) == [t |-> "number", v |-> n]
Obj(k) == [t |-> "object", v |-> k]

\* property access obj.f: a missing property reads as undefined
Get(x) == IF x = Absent THEN Undefined ELSE x

\* JS truthiness, as used by if (x) and !x
Truthy(x) ==
  CASE x.t \in {"absent", "undefined", "null"} -> FALSE
    [] x.t \in {"number", "boolean", "string"} -> x.v # 0
    [] OTHER -> TRUE

\* JSON.stringify of a property: a property holding undefined is left out
Stringify(x) == IF x = Undefined THEN Absent ELSE x

\* obj.jsonrpc != "2.0" is the loose inequality: the number 2 equals "2.0"
LooseNeq20(j) == j \notin {"2.0", "num2"}

\* An RpcError {code, message, data}. message is a fixed prefix followed by
\* the text msg of the failure (0: none); data.stack is stack (0: no data).
NoError == [code |-> 0, prefix |-> "", msg |-> 0, stack |-> 0]
RpcError(c, p, m, s) == [code |-> c, prefix |-> p, msg |-> m, stack |-> s]
\* the error object of an Error a peer sends
PeerError == RpcError(1, "peer", 1, 0)
\* an error object as a JS value
ErrorValue(e) == [t |-> "rpc error", v |-> e.code]

\* A value a handler throws or rejects with: an Error object with message
\* and stack k >= 1, or undefined (throw undefined, Promise.reject()).
Err(k) == [t |-> "error", v |-> k]
Failures == {Undefined, Err(1)}
\* the handler returns instead
NoFailure == [t |-> "none", v |-> 0]
\* what a handler does when it is invoked: it returns, or throws a failure
Behaviours == {NoFailure} \cup Failures
\* e.message and e.stack raise a TypeError when e is undefined
HasProperties(e) == e.t \notin {"undefined", "null"}

(* ------------------------------ envelopes ----------------------------- *)

Envelope(j, i, m, p, r, e) ==
  [jsonrpc |-> j, id |-> i, method |-> m, params |-> p, result |-> r, error |-> e]

NoEnvelope == Envelope("absent", Absent, "", Absent, Absent, NoError)

\* method names; "" is no method property
Methods == {"X", "Y"}
\* the methods handlers are registered for; "Y" never has one
RegMethods == {"X"}
\* the methods of the requests and notifications the client issues
CallMethods == {"X"}
\* the opaque params payload of requests and notifications
P == Obj(3)
\* ids an inbound envelope may carry
InIds == {Absent, Null, Num(0), Num(1), Num(2)}
\* result payloads an inbound envelope may carry
InResults == {Absent, Num(0), Obj(1), Obj(2)}

InEnvelopes ==
  {Envelope("2.0", i, m, P, Absent, NoError) : i \in InIds, m \in Methods}
  \cup {Envelope("2.0", i, "", Absent, r, NoError) : i \in InIds, r \in InResults}
  \cup {Envelope("2.0", i, "", Absent, r, PeerError) :
          i \in InIds, r \in {Absent, Num(0), Obj(1)}}
  \cup {Envelope(j, i, "X", P, Absent, NoError) :
          j \in {"1.0", "absent"}, i \in {Absent, Num(1)}}
  \cup {Envelope("num2", Num(1), "X", P, Absent, NoError)}

\* What JSON.parse makes of a line: a failure with its message text, or a
\* value of some typeof-kind; an object value has its envelope in env.
Line(ok, k, e) == [parse |-> ok, kind |-> k, env |-> e]
NoLine == Line("none", "none", NoEnvelope)
Lines ==
  {Line("fail", "none", NoEnvelope)}
  \cup {Line("ok", k, NoEnvelope) : k \in {"number", "null", "array"}}
  \cup {Line("ok", "object", e) : e \in InEnvelopes}

\* the lines that answer a call: an id, no method, a result or an error
ResponseLines ==
  {l \in Lines : /\ l.kind = "object" /\ l.env.jsonrpc = "2.0" /\ l.env.method = ""
                 /\ (l.env.result # Absent \/ l.env.error # NoError)}

\* one line for each branch of the dispatcher
CoreLines ==
  {Line("fail", "none", NoEnvelope), Line("ok", "number", NoEnvelope)}
  \cup {Line("ok", "object", e) :
          e \in {Envelope("1.0", Num(1), "X", P, Absent, NoError),
                 Envelope("2.0", Absent, "X", P, Absent, NoError),
                 Envelope("2.0", Num(1), "X", P, Absent, NoError),
                 Envelope("2.0", Num(1), "", Absent, Obj(1), NoError),
                 Envelope("2.0", Num(1), "", Absent, Absent, PeerError),
                 Envelope("2.0", Num(1), "", Absent, Absent, NoError)}}

(* -------------------------------- state ------------------------------- *)

Sockets == 1..MaxSockets
\* handler functions a caller may register
Handlers == {1, 2}
\* values a request handler may return or resolve to
HandlerResults == {Undefined, Obj(4)}

VARIABLES
  socket,               \* this.socket: 0 is null/undefined, else the transport
  sockState,            \* each transport: none, connecting, open, errored, closed
  connectPromise,       \* the promise of the connect() that opened each transport:
                        \* none, pending, resolved
  idSeed,               \* this.idSeed
  resultPromises,       \* the keys of this.resultPromises
  requestHandlers,      \* this.requestHandlers: method -> handler, 0 is none
  notificationHandlers, \* this.notificationHandlers: method -> handler, 0 is none
  tasks,                \* Promise.resolve(retval) chains that have not settled yet
  last,                 \* what the last operation did: its input and its effects
  maxIssued             \* history: the largest id a request built by call() carried

vars == <<socket, sockState, connectPromise, idSeed, resultPromises,
          requestHandlers, notificationHandlers, tasks, last, maxIssued>>

\* The observable effects of one operation: the lines it wrote, the error
\* it raised ("" is none), the handlers it invoked and what the handler
\* threw, the call promises it settled, whether it ended in an unhandled
\* rejection, whether it logged a warning (console.warn).
Effect(op, line, out, raised, invoked, settled, unhandled) ==
  [op |-> op, line |-> line, out |-> out, raised |-> raised,
   invoked |-> invoked, threw |-> NoFailure, settled |-> settled,
   unhandled |-> unhandled, warned |-> FALSE]

Init ==
  /\ socket = 0
  /\ sockState = [s \in Sockets |-> "none"]
  /\ connectPromise = [s \in Sockets |-> "none"]
  /\ idSeed = IdSeedInit
  /\ resultPromises = {}
  /\ requestHandlers = [m \in RegMethods |-> 0]
  /\ notificationHandlers = [m \in RegMethods |-> 0]
  /\ tasks = <<>>
  /\ last = Effect("init", NoLine, <<>>, "", <<>>, <<>>, FALSE)
  /\ maxIssued = 0

(* ------------------------------- sending ------------------------------ *)

\* generateID that forgets the increment
generateID_NoIncrement(seed) == [id |-> seed, seed |-> seed]

\* generateID: return this.idSeed++
generateID(seed) == [id |-> seed, seed |-> seed + 1]

\* createRequest(method)(params)(client): the id comes from generateID
createRequest(method, params, id) ==
  Envelope("2.0", Num(id), method, params, Absent, NoError)

\* createResult: if (error) an Error envelope, else a Result envelope that
\* has a result property whatever result is
createResult(id, result, error) ==
  IF error # NoError
    THEN Envelope("2.0", id, "", Absent, Absent, error)
    ELSE Envelope("2.0", id, "", Absent, result, NoError)

\* JSON.stringify(obj)
Serialise(obj) ==
  [obj EXCEPT !.id = Stringify(@), !.params = Stringify(@), !.result = Stringify(@)]

Sent(raised, out) == [raised |-> raised, out |-> out]

\* a sendRaw without the test of this.socket
sendRaw_Unguarded(sock, obj) ==
  IF LooseNeq20(obj.jsonrpc) THEN Sent("expected message.jsonrpc == '2.0'", <<>>)
  ELSE Sent("", <<[sock |-> sock, env |-> Serialise(obj)]>>)

\* sendRaw: throws on a null socket or a wrong jsonrpc, else writes one line
sendRaw(sock, obj) ==
  IF sock = 0 THEN Sent("trying to send on disconnected client", <<>>)
  ELSE IF LooseNeq20(obj.jsonrpc) THEN Sent("expected message.jsonrpc == '2.0'", <<>>)
  ELSE Sent("", <<[sock |-> sock, env |-> Serialise(obj)]>>)

\* sendResult: throws when the envelope's id is falsy, else sendRaw
sendResult(sock, id, result, error) ==
  LET obj == createResult(id, result, error)
  IN  IF ~Truthy(obj.id) THEN Sent("missing id in result", <<>>)
      ELSE sendRaw(sock, obj)

(* ------------------------------ dispatcher ---------------------------- *)

\* What one run of the dispatcher does: the lines written, the error that
\* escapes it ("" is none), the handlers invoked, the call promises settled,
\* the new table of pending calls, the new tasks.
Outcome(out, raised, invoked, settled, rp, tk) ==
  [out |-> out, raised |-> raised, invoked |-> invoked, settled |-> settled,
   rp |-> rp, tk |-> tk]

\* an outcome that changes no state of the client
Reply(sent, invoked) ==
  Outcome(sent.out, sent.raised, invoked, <<>>, resultPromises, tasks)

\* registry[method]: 0 when the method has no handler (or is no method)
handlerFor(registry, method) ==
  IF method \in DOMAIN registry THEN registry[method] ELSE 0

\* a lookup that takes the oldest entry whatever the id is
promiseFor_Oldest(rp, id) ==
  IF id.t = "number" /\ rp # {} THEN CHOOSE k \in rp : \A j \in rp : k <= j ELSE 0

\* this.resultPromises[obj.id]: the key of the entry, 0 when there is none
promiseFor(rp, id) ==
  IF id.t = "number" /\ id.v \in rp THEN id.v ELSE 0

Invocation(registry, handler, obj) ==
  [registry |-> registry, handler |-> handler, arg |-> obj]

\* a notification whose handler's return value is chained like a request's
dispatchNotification_Awaited(obj, e) ==
  LET handler == handlerFor(notificationHandlers, obj.method)
  IN  IF handler = 0
        THEN Reply(Sent("", <<>>), <<>>)
        ELSE Outcome(<<>>, IF e # NoFailure THEN "notification handler threw" ELSE "",
                     <<Invocation("notification", handler, obj)>>, <<>>, resultPromises,
                     Append(tasks, [id |-> Get(obj.id)]))

\* if (!obj.id): a notification. The handler's return value is dropped; an
\* error it throws is not caught.
dispatchNotification(obj, e) ==
  LET handler == handlerFor(notificationHandlers, obj.method)
  IN  IF handler = 0
        THEN Reply(Sent("", <<>>), <<>>)
        ELSE Reply(Sent(IF e # NoFailure THEN "notification handler threw" ELSE "", <<>>),
                   <<Invocation("notification", handler, obj)>>)

\* the InternalError a failure e is converted to
internalError(prefix, e) == RpcError(InternalError, prefix, e.v, e.v)

\* if (obj.method): a request. No handler: MethodNotFound. A handler that
\* throws e: InternalError, built from e.message and e.stack. Otherwise the
\* return value is chained with Promise.resolve(retval).then().catch().
dispatchRequest(obj, e) ==
  LET handler == handlerFor(requestHandlers, obj.method)
      inv == <<Invocation("request", handler, obj)>>
  IN  IF handler = 0
        THEN Reply(sendResult(socket, Get(obj.id), Null,
                              RpcError(MethodNotFound, "no handler is registered for method", 0, 0)),
                   <<>>)
      ELSE IF e # NoFailure
        THEN IF HasProperties(e)
               THEN Reply(sendResult(socket, Get(obj.id), Null, internalError("sync error: ", e)), inv)
               ELSE Reply(Sent("TypeError", <<>>), inv)
      ELSE Outcome(<<>>, "", inv, <<>>, resultPromises,
                   Append(tasks, [id |-> Get(obj.id)]))

\* promise.resolve / promise.reject followed by delete of the entry
settle(key, how, value) ==
  Outcome(<<>>, "", <<>>, <<[key |-> key, how |-> how, value |-> value]>>,
          resultPromises \ {key}, tasks)

\* if (obj.result): the result of a call
dispatchResult(obj) ==
  LET key == promiseFor(resultPromises, Get(obj.id))
  IN  IF key = 0
        THEN Reply(Sent("", <<>>), <<>>)
        ELSE settle(key, "resolved", Get(obj.result))

\* if (obj.error): the error of a call; the promise is rejected with
\* obj.result
dispatchError(obj) ==
  LET key == promiseFor(resultPromises, Get(obj.id))
  IN  IF key = 0
        THEN Reply(Sent("", <<>>), <<>>)
        ELSE settle(key, "rejected", Get(obj.result))

\* onReceiveRaw(line); e is what the handler it invokes throws (NoFailure:
\* the handler returns)
onReceiveRaw(line, e) ==
  LET obj == line.env
  IN  IF line.parse = "fail"
        THEN Reply(sendResult(socket, Null, Null, RpcError(ParseError, "", 1, 0)), <<>>)
      ELSE IF line.kind \notin {"object", "null", "array"}
        THEN Reply(sendResult(socket, Null, Null,
                              RpcError(InvalidRequest, "expected object, got", 0, 0)), <<>>)
      ELSE IF line.kind = "null"
        THEN Reply(Sent("TypeError", <<>>), <<>>)
      ELSE IF LooseNeq20(obj.jsonrpc)
        THEN Reply(sendResult(socket, Null, Null,
                              RpcError(InvalidRequest, "expected jsonrpc = '2.0', got", 0, 0)), <<>>)
      ELSE IF ~Truthy(Get(obj.id)) THEN dispatchNotification(obj, e)
      ELSE IF obj.method # "" THEN dispatchRequest(obj, e)
      ELSE IF Truthy(Get(obj.result)) THEN dispatchResult(obj)
      ELSE IF obj.error # NoError THEN dispatchError(obj)
      ELSE Reply(sendResult(socket, Get(obj.id), Null,
                            RpcError(InvalidRequest,
                                     "has id but doesn't have method, result, or error", 0, 0)),
                 <<>>)

\* The "data" listener of transport s: one line, handed to onReceiveRaw.
Receive(s, line, e) ==
  /\ sockState[s] = "open"
  /\ LET o == onReceiveRaw(line, e)
     IN  /\ e # NoFailure => o.invoked # <<>>
         /\ Len(o.tk) <= MaxTasks
         /\ resultPromises' = o.rp
         /\ tasks' = o.tk
         /\ last' = [Effect("receive", line, o.out, o.raised, o.invoked, o.settled, FALSE)
                       EXCEPT !.threw = e]
  /\ UNCHANGED <<maxIssued, socket, sockState, connectPromise, idSeed, requestHandlers,
                 notificationHandlers>>

(* ----------------------- handler completions -------------------------- *)

\* .catch(e => sendResult(InternalError ...)): e.message and e.stack are
\* read first; an error raised here is an unhandled rejection.
catchCallback(id, e) ==
  IF ~HasProperties(e) THEN [out |-> <<>>, unhandled |-> TRUE]
  ELSE LET r == sendResult(socket, id, Null, internalError("async error: ", e))
       IN  [out |-> r.out, unhandled |-> r.raised # ""]

\* .then(result => sendResult(result)): an error sendResult raises goes to
\* the .catch callback as an Error object
thenCallback(id, result) ==
  LET r == sendResult(socket, id, result, NoError)
  IN  IF r.raised = "" THEN [out |-> r.out, unhandled |-> FALSE]
      ELSE catchCallback(id, Err(2))

RemoveAt(seq, k) == [i \in 1..(Len(seq) - 1) |-> IF i < k THEN seq[i] ELSE seq[i + 1]]

\* a completion that answers with the id of the oldest pending request
TaskResolves_OldestId(k, result) ==
  /\ k \in 1..Len(tasks)
  /\ LET c == thenCallback(tasks[1].id, result)
     IN  last' = Effect("resolves", Line("none", "none", createResult(tasks[1].id, result, NoError)),
                        c.out, "", <<>>, <<>>, c.unhandled)
  /\ tasks' = RemoveAt(tasks, k)
  /\ UNCHANGED <<maxIssued, socket, sockState, connectPromise, idSeed, resultPromises,
                 requestHandlers, notificationHandlers>>

\* The value a request handler returned (or the promise it returned) resolves.
TaskResolves(k, result) ==
  /\ k \in 1..Len(tasks)
  /\ LET c == thenCallback(tasks[k].id, result)
     IN  last' = Effect("resolves", Line("none", "none", createResult(tasks[k].id, result, NoError)),
                        c.out, "", <<>>, <<>>, c.unhandled)
  /\ tasks' = RemoveAt(tasks, k)
  /\ UNCHANGED <<maxIssued, socket, sockState, connectPromise, idSeed, resultPromises,
                 requestHandlers, notificationHandlers>>

\* The promise a request handler returned rejects with e.
TaskRejects(k, e) ==
  /\ k \in 1..Len(tasks)
  /\ LET c == catchCallback(tasks[k].id, e)
     IN  last' = Effect("rejects", Line("none", "none", createResult(tasks[k].id, e, NoError)),
                        c.out, "", <<>>, <<>>, c.unhandled)
  /\ tasks' = RemoveAt(tasks, k)
  /\ UNCHANGED <<maxIssued, socket, sockState, connectPromise, idSeed, resultPromises,
                 requestHandlers, notificationHandlers>>

(* ------------------------------ the API ------------------------------- *)

\* a call that records its promise before it sends
Call_RecordsFirst(method) ==
  /\ idSeed <= MaxId
  /\ LET obj == createRequest(method, P, idSeed)
         r == sendRaw(socket, obj)
     IN  /\ idSeed' = generateID(idSeed).seed
         /\ resultPromises' = resultPromises \cup {idSeed}
         /\ maxIssued' = IF idSeed > maxIssued THEN idSeed ELSE maxIssued
         /\ last' = Effect("call", Line("none", "none", obj), r.out, r.raised, <<>>, <<>>, FALSE)
  /\ UNCHANGED <<socket, sockState, connectPromise, requestHandlers,
                 notificationHandlers, tasks>>

\* call(creator): the request is built (an id is generated), sent, and its
\* promise is recorded; call is async, so an error it throws rejects the
\* promise it returns.
Call(method) ==
  /\ idSeed <= MaxId
  /\ LET g == generateID(idSeed)
         obj == createRequest(method, P, g.id)
         r == IF ~Truthy(obj.id) THEN Sent("missing id in request", <<>>)
              ELSE sendRaw(socket, obj)
     IN  /\ idSeed' = g.seed
         /\ resultPromises' = IF r.raised = "" THEN resultPromises \cup {g.id}
                              ELSE resultPromises
         /\ maxIssued' = IF obj.id.v > maxIssued THEN obj.id.v ELSE maxIssued
         /\ last' = Effect("call", Line("none", "none", obj), r.out, r.raised, <<>>, <<>>, FALSE)
  /\ UNCHANGED <<socket, sockState, connectPromise, requestHandlers,
                 notificationHandlers, tasks>>

\* a notify that sends the notification it builds
Notify_Sends(method) ==
  /\ LET obj == Envelope("2.0", Absent, method, P, Absent, NoError)
         r == sendRaw(socket, obj)
     IN  last' = Effect("notify", Line("none", "none", obj), r.out, r.raised, <<>>, <<>>, FALSE)
  /\ UNCHANGED <<maxIssued, socket, sockState, connectPromise, idSeed, resultPromises,
                 requestHandlers, notificationHandlers, tasks>>

\* notify(nc, params): builds the notification and does nothing with it
Notify(method) ==
  /\ last' = Effect("notify", Line("none", "none", Envelope("2.0", Absent, method, P, Absent, NoError)),
                    <<>>, "", <<>>, <<>>, FALSE)
  /\ UNCHANGED <<maxIssued, socket, sockState, connectPromise, idSeed, resultPromises,
                 requestHandlers, notificationHandlers, tasks>>

\* an onRequest where the last registration wins
OnRequest_Replaces(method, handler) ==
  /\ idSeed <= MaxId
  /\ idSeed' = generateID(idSeed).seed
  /\ requestHandlers' = [requestHandlers EXCEPT ![method] = handler]
  /\ last' = Effect("onRequest", Line("none", "none", createRequest(method, Null, idSeed)),
                    <<>>, "", <<>>, <<>>, FALSE)
  /\ UNCHANGED <<maxIssued, socket, sockState, connectPromise, resultPromises,
                 notificationHandlers, tasks>>

\* onRequest(rc, handler): rc(null)(this) builds a sample request, which
\* generates an id
OnRequest(method, handler) ==
  /\ idSeed <= MaxId
  /\ LET g == generateID(idSeed)
         taken == requestHandlers[method] # 0
     IN  /\ idSeed' = g.seed
         /\ requestHandlers' = IF taken THEN requestHandlers
                               ELSE [requestHandlers EXCEPT ![method] = handler]
         /\ last' = Effect("onRequest", Line("none", "none", createRequest(method, Null, g.id)),
                           <<>>,
                           IF taken THEN "cannot register a second request handler" ELSE "",
                           <<>>, <<>>, FALSE)
  /\ UNCHANGED <<maxIssued, socket, sockState, connectPromise, resultPromises,
                 notificationHandlers, tasks>>

\* onNotification(nc, handler)
OnNotification(method, handler) ==
  /\ LET taken == notificationHandlers[method] # 0
     IN  /\ notificationHandlers' = IF taken THEN notificationHandlers
                                    ELSE [notificationHandlers EXCEPT ![method] = handler]
         /\ last' = Effect("onNotification",
                           Line("none", "none", Envelope("2.0", Absent, method, Null, Absent, NoError)),
                           <<>>,
                           IF taken THEN "cannot register a second notification handler" ELSE "",
                           <<>>, <<>>, FALSE)
  /\ UNCHANGED <<maxIssued, socket, sockState, connectPromise, idSeed, resultPromises,
                 requestHandlers, tasks>>

(* ---------------------------- the connection -------------------------- *)

Op(name, raised) == Effect(name, NoLine, <<>>, raised, <<>>, <<>>, FALSE)

\* connect(address): throws when this.socket is set, else createConnection
\* and a pending promise. The new transport takes the first place of socks
\* that holds no live transport: a closed transport delivers nothing more.
Connect(socks) ==
  /\ IF socket # 0
       THEN /\ last' = Op("connect", "json-rpc client already connected!")
            /\ UNCHANGED <<sockState, connectPromise>>
       ELSE \E s \in socks :
              /\ sockState[s] \in {"none", "closed"}
              /\ \A t \in socks : t < s => sockState[t] \notin {"none", "closed"}
              /\ sockState' = [sockState EXCEPT ![s] = "connecting"]
              /\ connectPromise' = [connectPromise EXCEPT ![s] = "pending"]
              /\ last' = Op("connect", "")
  /\ UNCHANGED <<maxIssued, socket, idSeed, resultPromises, requestHandlers,
                 notificationHandlers, tasks>>

\* socket.on("connect"): this.socket = socket, the lines are piped to
\* onReceiveRaw, the promise resolves
OnSocketConnect(s) ==
  /\ sockState[s] = "connecting"
  /\ sockState' = [sockState EXCEPT ![s] = "open"]
  /\ socket' = s
  /\ connectPromise' = [connectPromise EXCEPT ![s] = "resolved"]
  /\ last' = Op("socket connect", "")
  /\ UNCHANGED <<maxIssued, idSeed, resultPromises, requestHandlers,
                 notificationHandlers, tasks>>

\* an error listener that rejects every pending call
OnSocketError_Sweeps(s) ==
  /\ sockState[s] \in {"connecting", "open"}
  /\ sockState' = [sockState EXCEPT ![s] = "errored"]
  /\ socket' = 0
  /\ resultPromises' = {}
  /\ last' = [Op("socket error", "") EXCEPT !.warned = (socket # 0)]
  /\ UNCHANGED <<maxIssued, connectPromise, idSeed, requestHandlers,
                 notificationHandlers, tasks>>

\* socket.on("error"): ignored when this.socket is null, else a warning and
\* this.socket = null
OnSocketError(s) ==
  /\ sockState[s] \in {"connecting", "open"}
  /\ sockState' = [sockState EXCEPT ![s] = "errored"]
  /\ socket' = 0
  /\ last' = [Op("socket error", "") EXCEPT !.warned = (socket # 0)]
  /\ UNCHANGED <<maxIssued, connectPromise, idSeed, resultPromises, requestHandlers,
                 notificationHandlers, tasks>>

\* socket.on("close"): ignored when this.socket is null, else a warning and
\* this.socket = null
OnSocketClose(s) ==
  /\ sockState[s] \in {"open", "errored"}
  /\ sockState' = [sockState EXCEPT ![s] = "closed"]
  /\ socket' = 0
  /\ last' = [Op("socket close", "") EXCEPT !.warned = (socket # 0)]
  /\ UNCHANGED <<maxIssued, connectPromise, idSeed, resultPromises, requestHandlers,
                 notificationHandlers, tasks>>

\* a close() that only ends the transport and leaves this.socket to the
\* transport's close event
Close_Deferred ==
  /\ last' = Op("close", "")
  /\ UNCHANGED <<maxIssued, socket, sockState, connectPromise, idSeed, resultPromises,
                 requestHandlers, notificationHandlers, tasks>>

\* close(): this.socket = null, then socket.end(). end() closes the writing
\* side only: the transport stays open, its lines and its error and close
\* events are still delivered.
Close ==
  /\ socket' = 0
  /\ last' = Op("close", "")
  /\ UNCHANGED <<maxIssued, sockState, connectPromise, idSeed, resultPromises, requestHandlers,
                 notificationHandlers, tasks>>

\* The steps of a client whose transports are socks, that receives the lines
\* of lines and whose callers register the handlers of handlers.
NextOver(socks, lines, handlers) ==
  \/ Connect(socks)
  \/ Close
  \/ \E s \in socks : OnSocketConnect(s)
  \/ \E s \in socks : OnSocketError(s)
  \/ \E s \in socks : OnSocketClose(s)
  \/ \E m \in CallMethods : Call(m)
  \/ \E m \in CallMethods : Notify(m)
  \/ \E m \in RegMethods, h \in handlers : OnRequest(m, h)
  \/ \E m \in RegMethods, h \in handlers : OnNotification(m, h)
  \/ \E s \in socks, line \in lines :
       \E e \in IF onReceiveRaw(line, NoFailure).invoked = <<>> THEN {NoFailure}
                 ELSE Behaviours : Receive(s, line, e)
  \/ \E k \in 1..MaxTasks, result \in HandlerResults : TaskResolves(k, result)
  \/ \E k \in 1..MaxTasks, e \in Failures : TaskRejects(k, e)

\* A client whose caller may connect while earlier transports are alive.
Next == NextOver(Sockets, CoreLines, {1})
Spec == Init /\ [][Next]_vars

\* The same client, whose caller never calls connect() while an earlier
\* connect() is under way: transports overlap only after close().
ConnectOrderly ==
  /\ \A s \in Sockets : sockState[s] # "connecting"
  /\ Connect(Sockets)
NextOrderly ==
  \/ ConnectOrderly
  \/ Close
  \/ \E s \in Sockets : OnSocketConnect(s)
  \/ \E s \in Sockets : OnSocketError(s)
  \/ \E s \in Sockets : OnSocketClose(s)
  \/ \E m \in CallMethods : Call(m)
  \/ \E m \in CallMethods : Notify(m)
  \/ \E m \in RegMethods : OnRequest(m, 1)
  \/ \E m \in RegMethods : OnNotification(m, 1)
  \/ \E s \in Sockets, line \in CoreLines :
       \E e \in IF onReceiveRaw(line, NoFailure).invoked = <<>> THEN {NoFailure}
                 ELSE Behaviours : Receive(s, line, e)
  \/ \E k \in 1..MaxTasks, result \in HandlerResults : TaskResolves(k, result)
  \/ \E k \in 1..MaxTasks, e \in Failures : TaskRejects(k, e)
SpecOrderly == Init /\ [][NextOrderly]_vars

\* A client with one transport at a time, with every way to register
\* handlers.
NextRegistries == NextOver({1}, CoreLines, Handlers)
SpecRegistries == Init /\ [][NextRegistries]_vars

\* A client with one transport at a time that receives every answer to its
\* calls.
CallLines == CoreLines \cup ResponseLines
NextCalls == NextOver({1}, CallLines, {1})
SpecCalls == Init /\ [][NextCalls]_vars

\* A client with one transport at a time that receives every request,
\* notification and malformed line.
ServeLines == CoreLines \cup (Lines \ ResponseLines)
NextServe == NextOver({1}, ServeLines, {1})
SpecServe == Init /\ [][NextServe]_vars

\* The same client, where a transport that has emitted an error goes on to
\* emit its close event (net.Socket destroys itself after an error).
CloseFollowsError == \A s \in {1} : WF_vars(sockState[s] = "errored" /\ OnSocketClose(s))
SpecCallsFair == Init /\ [][NextCalls]_vars /\ CloseFollowsError

(* ------------------------------- claims ------------------------------- *)

\* the envelope of the line or request the last operation was about
Obj0 == last.line.env
\* the last operation was the dispatch of a well-formed envelope
ReceivedEnvelope ==
  /\ last.op = "receive" /\ last.line.parse = "ok" /\ last.line.kind = "object"
  /\ Obj0.jsonrpc = "2.0"
\* the same, of the state a step leads to
ReceivedEnvelopeNext ==
  /\ last'.op = "receive" /\ last'.line.parse = "ok" /\ last'.line.kind = "object"
  /\ last'.line.env.jsonrpc = "2.0"

\* C1: a call that succeeds carries an id no outstanding call has, and a
\* Result with a (truthy) payload whose id is that of an outstanding call
\* resolves that call with that payload and leaves every other outstanding
\* call outstanding, in whatever order the Results arrive; a call is only
\* ever resolved with the payload of the Result that carries its id.
C1_OwnPayload ==
  [][/\ (last'.op = "call" /\ last'.raised = "")
          => /\ last'.line.env.id.v \notin resultPromises
             /\ resultPromises' = resultPromises \cup {last'.line.env.id.v}
     /\ (last'.op = "receive" /\ last'.settled # <<>> /\ last'.settled[1].how = "resolved")
          => /\ Len(last'.settled) = 1
             /\ last'.line.env.id = Num(last'.settled[1].key)
             /\ last'.settled[1].value = last'.line.env.result
             /\ last'.settled[1].key \in resultPromises
             /\ resultPromises' = resultPromises \ {last'.settled[1].key}
     /\ (/\ ReceivedEnvelopeNext /\ last'.line.env.method = ""
         /\ Truthy(last'.line.env.result)
         /\ last'.line.env.id.t = "number" /\ last'.line.env.id.v \in resultPromises)
          => last'.settled = <<[key |-> last'.line.env.id.v, how |-> "resolved",
                                value |-> last'.line.env.result]>>
    ]_vars

\* two calls are outstanding and the Result of the second arrives first
C1_Witness ==
  /\ last.op = "receive" /\ last.settled # <<>>
  /\ last.settled[1] = [key |-> 2, how |-> "resolved", value |-> Obj(2)]
  /\ 1 \in resultPromises

\* C2: the ids of the requests call() builds are at least 1 and each is
\* larger than every id a call() carried before, whatever else happened in
\* between (registrations, close, connect, inbound lines).
C2_IdsIncrease ==
  [][last'.op = "call"
       => /\ last'.line.env.id.t = "number"
          /\ last'.line.env.id.v >= 1
          /\ last'.line.env.id.v > maxIssued
          /\ maxIssued' = last'.line.env.id.v]_vars

\* a call is sent while an earlier call is outstanding
C2_Witness ==
  /\ last.op = "call" /\ last.raised = "" /\ Len(last.out) = 1
  /\ Obj0.id.v >= 2 /\ maxIssued = Obj0.id.v
  /\ \E i \in resultPromises : i < Obj0.id.v

\* C10: an envelope with no id is a notification: when its method has a
\* notification handler that handler is invoked once, with the envelope;
\* when it has none nothing is invoked; either way nothing is written, no
\* completion is left pending and no call is settled, also when the
\* handler throws.
C10_NotificationSilent ==
  [][(ReceivedEnvelopeNext /\ last'.line.env.id = Absent)
       => /\ last'.out = <<>>
          /\ tasks' = tasks
          /\ resultPromises' = resultPromises
          /\ last'.settled = <<>>
          /\ LET handler == handlerFor(notificationHandlers, last'.line.env.method)
             IN  last'.invoked =
                   IF handler = 0 THEN <<>>
                   ELSE <<Invocation("notification", handler, last'.line.env)>>
    ]_vars

\* a notification whose handler was invoked and threw
C10_Witness ==
  /\ ReceivedEnvelope /\ Obj0.id = Absent
  /\ Len(last.invoked) = 1 /\ last.invoked[1].registry = "notification"
  /\ last.raised = "notification handler threw"
  /\ socket # 0

\* the one line the last operation must have written: envelope env, on the
\* connected transport
Wrote(env) == last.out = <<[sock |-> socket, env |-> env]>>

\* C3: a request with a non-null id whose method has a request handler gets
\* that handler invoked, and when the handler completes successfully while
\* the client is connected exactly one line is written: the Result with the
\* request's id, the handler's value and no error.
C3_OneSuccessResult ==
  /\ (/\ ReceivedEnvelope /\ Obj0.id \notin {Absent, Null} /\ Obj0.method # ""
      /\ handlerFor(requestHandlers, Obj0.method) # 0 /\ last.threw = NoFailure)
       => /\ last.invoked =
               <<Invocation("request", handlerFor(requestHandlers, Obj0.method), Obj0)>>
          /\ last.out = <<>> /\ last.raised = ""
  /\ (last.op = "resolves" /\ socket # 0)
       => /\ Wrote(Envelope("2.0", Obj0.id, "", Absent, Stringify(Obj0.result), NoError))
          /\ ~last.unhandled

\* C4: a line that fails to parse, received while connected, gets exactly
\* one Error written, with code ParseError, id null and the message of the
\* parse failure, and the dispatcher raises nothing.
C4_ParseErrorReported ==
  (last.op = "receive" /\ last.line.parse = "fail" /\ socket # 0)
    => /\ Wrote(Envelope("2.0", Null, "", Absent, Absent, RpcError(ParseError, "", 1, 0)))
       /\ last.raised = ""

\* the codes reserved for protocol errors
ReservedCodes == {ParseError, InvalidRequest, MethodNotFound, InternalError}
\* a line that is a protocol-level error: unparseable, not an object, not
\* jsonrpc "2.0", a request for a method without handler, a request whose
\* handler throws
ProtocolError ==
  /\ last.op = "receive"
  /\ \/ last.line.parse = "fail"
     \/ last.line.kind # "object"
     \/ Obj0.jsonrpc \in {"1.0", "absent"}
     \/ /\ Obj0.jsonrpc = "2.0" /\ Obj0.id \notin {Absent, Null} /\ Obj0.method # ""
        /\ (handlerFor(requestHandlers, Obj0.method) = 0 \/ last.threw # NoFailure)

\* C5: every protocol-level error received while connected gets exactly
\* one Error written, with a reserved code and the envelope's id (null when
\* it has none), and the dispatcher raises nothing.
C5_ProtocolErrorsReported ==
  (ProtocolError /\ socket # 0)
    => /\ Len(last.out) = 1
       /\ last.out[1].env.error.code \in ReservedCodes
       /\ last.out[1].env.id = (IF Obj0.id = Absent THEN Null ELSE Obj0.id)
       /\ last.raised = ""

\* C6: an envelope with an id and an error (and no result) that settles a
\* call rejects it with the envelope's error object.
C6_RejectsWithError ==
  (/\ ReceivedEnvelope /\ Obj0.method = "" /\ Obj0.result = Absent
   /\ Obj0.error # NoError /\ last.settled # <<>>)
    => last.settled = <<[key |-> Obj0.id.v, how |-> "rejected",
                         value |-> ErrorValue(Obj0.error)]>>

\* C7: an envelope with an id and a result, whatever the result is, either
\* resolves the outstanding call of that id with the result and removes its
\* entry, or (no such call) is dropped: nothing written, nothing changed.
C7_ResultConsumedOrDropped ==
  [][(/\ ReceivedEnvelopeNext /\ last'.line.env.id \notin {Absent, Null}
      /\ last'.line.env.method = "" /\ last'.line.env.result # Absent
      /\ last'.line.env.error = NoError)
       => IF last'.line.env.id.v \in resultPromises
            THEN /\ last'.settled = <<[key |-> last'.line.env.id.v, how |-> "resolved",
                                       value |-> last'.line.env.result]>>
                 /\ resultPromises' = resultPromises \ {last'.line.env.id.v}
                 /\ last'.out = <<>>
            ELSE /\ last'.settled = <<>> /\ last'.out = <<>> /\ last'.raised = ""
                 /\ resultPromises' = resultPromises /\ tasks' = tasks
    ]_vars

\* C8: a request handler that fails while the client is connected, by
\* throwing or by rejecting, gets exactly one Error written, with code
\* InternalError, the request's id and the failure's message and stack, and
\* no Result.
C8_HandlerFailureReported ==
  /\ (/\ ReceivedEnvelope /\ Obj0.id \notin {Absent, Null} /\ Obj0.method # ""
      /\ handlerFor(requestHandlers, Obj0.method) # 0 /\ last.threw # NoFailure
      /\ socket # 0)
       => /\ Len(last.out) = 1
          /\ last.out[1].env.id = Obj0.id
          /\ last.out[1].env.result = Absent
          /\ last.out[1].env.error.code = InternalError
          /\ HasProperties(last.threw)
               => /\ last.out[1].env.error.msg = last.threw.v
                  /\ last.out[1].env.error.stack = last.threw.v
  /\ (last.op = "rejects" /\ socket # 0)
       => /\ Len(last.out) = 1
          /\ last.out[1].env.id = Obj0.id
          /\ last.out[1].env.result = Absent
          /\ last.out[1].env.error.code = InternalError
          /\ HasProperties(Obj0.result)
               => /\ last.out[1].env.error.msg = Obj0.result.v
                  /\ last.out[1].env.error.stack = Obj0.result.v

\* C9: a request with an id whose method has no request handler, received
\* while connected, gets exactly one Error written, with code
\* MethodNotFound and the request's id, and no handler is invoked.
C9_MethodNotFound ==
  (/\ ReceivedEnvelope /\ Obj0.id \notin {Absent, Null} /\ Obj0.method # ""
   /\ handlerFor(requestHandlers, Obj0.method) = 0 /\ socket # 0)
    => /\ Len(last.out) = 1
       /\ last.out[1].env.id = Obj0.id
       /\ last.out[1].env.error.code = MethodNotFound
       /\ last.invoked = <<>>

\* C11: onRequest and onNotification for a method that already has a
\* handler in that registry raise at once and leave both registries as
\* they were; a method that has a handler keeps that very handler through
\* every operation.
C11_HandlerKept ==
  [][/\ (last'.op = "onRequest" /\ requestHandlers[last'.line.env.method] # 0)
          => /\ last'.raised = "cannot register a second request handler"
             /\ requestHandlers' = requestHandlers
     /\ (last'.op = "onNotification" /\ notificationHandlers[last'.line.env.method] # 0)
          => /\ last'.raised = "cannot register a second notification handler"
             /\ notificationHandlers' = notificationHandlers
     /\ last'.op = "onRequest" => notificationHandlers' = notificationHandlers
     /\ last'.op = "onNotification" => requestHandlers' = requestHandlers
     /\ \A m \in RegMethods :
          /\ requestHandlers[m] # 0 => requestHandlers'[m] = requestHandlers[m]
          /\ notificationHandlers[m] # 0 => notificationHandlers'[m] = notificationHandlers[m]
    ]_vars

\* a second onRequest for a method was refused; the first handler is there
C11_Witness ==
  /\ last.op = "onRequest" /\ last.raised = "cannot register a second request handler"
  /\ requestHandlers[Obj0.method] \in Handlers
  /\ notificationHandlers[Obj0.method] \in Handlers
  /\ requestHandlers[Obj0.method] # notificationHandlers[Obj0.method]

\* C12: a call() made while this.socket is null (never connected, after
\* close(), after a transport error or close event) fails with the error
\* of sending on a disconnected client, writes nothing, settles nothing
\* and leaves the table of pending calls as it was.
C12_CallWhileDisconnected ==
  [][(last'.op = "call" /\ socket = 0)
       => /\ last'.raised = "trying to send on disconnected client"
          /\ last'.out = <<>> /\ last'.settled = <<>>
          /\ resultPromises' = resultPromises]_vars

\* a call fails after close(), while an earlier call is outstanding
C12_Witness ==
  /\ last.op = "call" /\ last.raised = "trying to send on disconnected client"
  /\ socket = 0 /\ \E s \in Sockets : sockState[s] = "open"
  /\ resultPromises # {} /\ Obj0.id.v \notin resultPromises

\* the client is Connecting: a connect() has opened a transport that has
\* neither connected nor failed yet
Connecting == \E s \in Sockets : sockState[s] = "connecting"

\* C13: connect() made while the client is connected or connecting fails
\* and opens no transport.
C13_ConnectRefused ==
  [][(last'.op = "connect" /\ (socket # 0 \/ Connecting))
       => /\ last'.raised = "json-rpc client already connected!"
          /\ sockState' = sockState]_vars

\* C14: when the transport a connect() opened fails before it connects,
\* the client is disconnected and the promise connect() returned is
\* eventually rejected.
C14_ConnectFailureSurfaced ==
  \A s \in Sockets :
    /\ []((sockState[s] = "errored" /\ connectPromise[s] = "pending") => socket = 0)
    /\ (sockState[s] = "errored" /\ connectPromise[s] = "pending")
         ~> (connectPromise[s] = "rejected")

\* the last operation of the step was a transport's error or close event
TransportEventNext == last'.op \in {"socket error", "socket close"}
\* the step leaves the client's own state, but for this.socket, as it was
ClientUntouched ==
  UNCHANGED <<idSeed, resultPromises, requestHandlers, notificationHandlers, tasks,
              connectPromise, maxIssued>>

\* C15: close() sets this.socket to null in its own step, with no transport
\* event processed and nothing raised; a transport error or close event
\* delivered while this.socket is null changes nothing of the client and
\* logs nothing; delivered while connected it sets this.socket to null and
\* logs a warning, raises nothing and settles no caller's promise.
C15_CloseAndEvents ==
  [][/\ last'.op = "close"
          => /\ socket' = 0 /\ sockState' = sockState
             /\ last'.raised = "" /\ ~last'.warned /\ ClientUntouched
     /\ (TransportEventNext /\ socket = 0)
          => /\ socket' = 0 /\ ~last'.warned /\ last'.raised = "" /\ ClientUntouched
     /\ (TransportEventNext /\ socket # 0)
          => /\ socket' = 0 /\ last'.warned /\ last'.raised = ""
             /\ last'.settled = <<>> /\ ClientUntouched
    ]_vars

\* the error event of a transport arrives after close() and is ignored
C15_Witness ==
  /\ last.op = "socket error" /\ ~last.warned /\ socket = 0
  /\ \E s \in Sockets : sockState[s] = "errored" /\ connectPromise[s] = "resolved"

C17_CompletionOrder ==
  [][/\ last'.op = "receive"
          => /\ Len(tasks') >= Len(tasks) /\ SubSeq(tasks', 1, Len(tasks)) = tasks
             /\ (/\ ReceivedEnvelopeNext /\ Truthy(last'.line.env.id)
                 /\ handlerFor(requestHandlers, last'.line.env.method) # 0
                 /\ last'.threw = NoFailure)
                  => /\ tasks' = Append(tasks, [id |-> last'.line.env.id])
                     /\ last'.out = <<>> /\ last'.raised = ""
     /\ (last'.op = "resolves" /\ socket # 0)
          => \E k \in 1..Len(tasks) :
               /\ tasks' = SubSeq(tasks, 1, k - 1) \o SubSeq(tasks, k + 1, Len(tasks))
               /\ last'.out = <<[sock |-> socket,
                                 env |-> Envelope("2.0", tasks[k].id, "", Absent,
                                                  Stringify(last'.line.env.result), NoError)]>>
               /\ ~last'.unhandled
    ]_vars

\* the Result of request 2 is written while the handler of request 1,
\* dispatched before or after it, is still pending
C17_Witness ==
  /\ last.op = "resolves" /\ socket # 0
  /\ Wrote(Envelope("2.0", Num(2), "", Absent, Obj(4), NoError))
  /\ tasks = <<[id |-> Num(1)]>>

\* C18: every line an operation writes goes to this.socket, which is not
\* null; a request handler that completes, with a value or a failure,
\* while this.socket is null writes nothing and leaves this.socket, the
\* transports, the table of pending calls, the registries and the id
\* counter as they were.
C18_NoWriteWhileDisconnected ==
  [][/\ \A i \in 1..Len(last'.out) : socket # 0 /\ last'.out[i].sock = socket
     /\ (last'.op \in {"resolves", "rejects"} /\ socket = 0)
          => /\ last'.out = <<>> /\ last'.settled = <<>>
             /\ UNCHANGED <<socket, sockState, connectPromise, idSeed, resultPromises,
                            requestHandlers, notificationHandlers>>
    ]_vars

\* a handler completes with a value after close(): neither the Result nor
\* the InternalError is written
C18_Witness ==
  /\ last.op = "resolves" /\ socket = 0 /\ last.out = <<>> /\ last.unhandled
  /\ Obj0.result = Obj(4)
  /\ \E s \in Sockets : sockState[s] = "open"

\* C19: the error or close event of a transport of an earlier connection,
\* which is not the one the client is connected on, leaves the client
\* connected on its transport.
C19_OldTransportEvent ==
  [][\A s \in Sockets :
       (/\ TransportEventNext /\ sockState'[s] # sockState[s]
        /\ socket # 0 /\ socket # s)
         => socket' = socket /\ ~last'.warned]_vars

\* C20: notify() writes nothing, raises nothing and changes nothing of the
\* client, whether this.socket is set or null.
C20_NotifyDoesNothing ==
  [][last'.op = "notify"
       => /\ last'.out = <<>> /\ last'.raised = "" /\ last'.settled = <<>>
          /\ ~last'.warned /\ ~last'.unhandled /\ last'.invoked = <<>>
          /\ UNCHANGED <<socket, sockState, connectPromise, idSeed, resultPromises,
                         requestHandlers, notificationHandlers, tasks, maxIssued>>
    ]_vars

\* a notify() on a connected client with a call outstanding
C20_Witness ==
  /\ last.op = "notify" /\ socket # 0 /\ resultPromises # {}
  /\ Obj0.method \in CallMethods /\ Obj0.id = Absent /\ last.out = <<>>

====
